---------------------------- MODULE Spec2Model ----------------------------
(***************************************************************************)
(* Model of PART1/konvu_part1_priority.py: the exposure lookup service      *)
(* (fetch_downloads_parallel / fetch_download_count_once with the durable   *)
(* downloads cache) and the scoring pipeline (score_rows).                  *)
(*                                                                          *)
(* Spec      : the lookup service as a state machine (main thread, worker   *)
(*             pool, durable cache file).                                   *)
(* ScoreSpec : score_rows applied to bounded batches of CSV rows, the        *)
(*             normalized values and scores as exact fractions.             *)
(* ScalerSpec: the severity column of score_rows through MinMaxScaler in    *)
(*             binary64, the arithmetic of the program's float64 columns.   *)
(***************************************************************************)
EXTENDS Integers, Sequences, FiniteSets, TLC

VARIABLES
    \* ---- exposure lookup service ----
    disk,       \* DOWNLOADS_CACHE file: [readable, data]
    phase,      \* position of the main thread in fetch_downloads_parallel
    requested,  \* argument pkgs as passed by the caller
    limit,      \* argument limit
    pkgs,       \* local pkgs after the truncation of line 164-165
    to_fetch,   \* local to_fetch
    cache,      \* local cache (in-memory dict)
    fut,        \* futures of the pool, per package: [st, attempt, val, raised]
    ret,        \* returned mapping
    netcalls,   \* history: requests.get calls per package in this invocation
    sleeps,     \* history: time.sleep calls per package in this invocation
    last,       \* history: status of the last response per package
    loaded,     \* history: the cache as load_downloads_cache returned it
    saves,      \* history: save_downloads_cache calls in this invocation
    run,        \* history: number of invocations started
    rerun,      \* history: this invocation repeats the arguments of the one before
    \* ---- scoring pipeline ----
    rows,       \* rows read by read_csv_rows
    spc,        \* position of the scoring pipeline
    weights,    \* (w_sev, w_exploit, w_exposure) as configured, in tenths
    df,         \* the scored data frame of score_rows (one record per GHSA row)
    agg,        \* the ranked sequence returned by score_rows
    scaled      \* the cvss column with its sev_norm values in binary64

lookupVars == <<disk, phase, requested, limit, pkgs, to_fetch, cache, fut, ret,
                netcalls, sleeps, last, loaded, saves, run, rerun>>
scoreVars == <<rows, spc, weights, df, agg, scaled>>
vars == <<lookupVars, scoreVars>>

-----------------------------------------------------------------------------
(* Bounds of the model *)

MaxPkgs == 3
MaxLimit == 3
MaxRuns == 2
Threads == 2

(* Program constants *)

MAX_RETRIES == 2

Packages == {"a", "b", "c"}
DownloadCounts == {7}
CachedCounts == {3}

Range(s) == {s[i] : i \in 1..Len(s)}
\* A sequence given by a rule, with its elements computed once.
Eval(f) == f @@ <<>>
EmptyMap == [p \in {} |-> 0]

\* Frequency-ordered package lists as score_rows builds them: the index of
\* value_counts() holds each package once.
PkgLists ==
    {s \in UNION {[1..n -> Packages] : n \in 1..MaxPkgs} :
        \A i, j \in 1..Len(s) : i # j => s[i] # s[j]}

\* Cache files: unreadable/absent, or a JSON object of package -> count.
DiskStates ==
    {[readable |-> FALSE, data |-> EmptyMap]} \cup
    {[readable |-> TRUE, data |-> m] :
        m \in UNION {[S -> CachedCounts] : S \in SUBSET Packages}}

\* Responses of the npm downloads endpoint, as requests.get delivers them:
\* status 0 stands for a transport exception (timeout, connection error);
\* body is the "downloads" field, NoField when the JSON object lacks it and
\* BadBody when r.json() / int() raise.
NoField == -1
BadBody == -2
Responses ==
    {[status |-> 200, body |-> d] : d \in DownloadCounts \cup {NoField, BadBody}} \cup
    {[status |-> s, body |-> NoField] : s \in {0, 429, 404}}

NoResponse == [status |-> -1, body |-> NoField]

-----------------------------------------------------------------------------
(* Helpers of the lookup service *)

\* load_downloads_cache: the parsed file, {} when absent or unparsable.
LoadCache(d) == IF d.readable THEN d.data ELSE EmptyMap

\* Mutant: only successful (non-zero) lookups are persisted.
SaveCacheSuccessesOnly(c) ==
    [readable |-> TRUE, data |-> [p \in {q \in DOMAIN c : c[q] # 0} |-> c[p]]]

\* save_downloads_cache: the whole dict rewritten.
SaveCache(c) == [readable |-> TRUE, data |-> c]

\* Mutant: the slice keeps one package too few.
TruncateOffByOne(ps, lim) == IF Len(ps) > lim THEN SubSeq(ps, 1, lim - 1) ELSE ps

\* lines 164-165: pkgs = pkgs[:limit] when longer than limit.
Truncate(ps, lim) == IF Len(ps) > lim THEN SubSeq(ps, 1, lim) ELSE ps

\* Mutant: every package is fetched, cached or not.
ToFetchIgnoringCache(ps, c) == ps

\* line 166: to_fetch = [p for p in pkgs if p not in cache].
ToFetch(ps, c) == SelectSeq(ps, LAMBDA p : p \notin DOMAIN c)

\* lines 168, 180: {p: cache.get(p, 0) for p in pkgs}.
ResultMap(ps, c) == [p \in Range(ps) |-> IF p \in DOMAIN c THEN c[p] ELSE 0]

\* An attempt raises inside the try block: transport exception, or a 200
\* whose body cannot be turned into an int.
Raises(r) == r.status = 0 \/ (r.status = 200 /\ r.body = BadBody)

\* line 151: int(r.json().get("downloads", 0)).
Downloads(r) == IF r.body = NoField THEN 0 ELSE r.body

\* Mutant: the loop condition is attempt < MAX_RETRIES.
FetchIterationOneAttemptShort(attempt, r) ==
    IF r.status = 200 /\ ~Raises(r)
    THEN [settled |-> TRUE, val |-> Downloads(r), attempt |-> attempt, slept |-> FALSE]
    ELSE IF r.status = 429 \/ Raises(r)
    THEN [settled |-> ~(attempt + 1 < MAX_RETRIES), val |-> 0,
          attempt |-> attempt + 1, slept |-> TRUE]
    ELSE [settled |-> TRUE, val |-> 0, attempt |-> attempt, slept |-> FALSE]

\* Mutant: every status other than 200 backs off and retries.
FetchIterationRetryEveryStatus(attempt, r) ==
    IF r.status = 200 /\ ~Raises(r)
    THEN [settled |-> TRUE, val |-> Downloads(r), attempt |-> attempt, slept |-> FALSE]
    ELSE [settled |-> ~(attempt + 1 <= MAX_RETRIES), val |-> 0,
          attempt |-> attempt + 1, slept |-> TRUE]

\* One iteration of the while loop of fetch_download_count_once (lines
\* 147-158) at `attempt` with response r, followed by line 159 when the loop
\* condition fails: [settled, val, attempt, slept].
FetchIteration(attempt, r) ==
    IF r.status = 200 /\ ~Raises(r)
    THEN [settled |-> TRUE, val |-> Downloads(r), attempt |-> attempt, slept |-> FALSE]
    ELSE IF r.status = 429 \/ Raises(r)
    THEN [settled |-> ~(attempt + 1 <= MAX_RETRIES), val |-> 0,
          attempt |-> attempt + 1, slept |-> TRUE]
    ELSE [settled |-> TRUE, val |-> 0, attempt |-> attempt, slept |-> FALSE]

NoFuture == [st |-> "none", attempt |-> 0, val |-> 0, raised |-> FALSE]
NewFuture == [st |-> "pending", attempt |-> 0, val |-> 0, raised |-> FALSE]

Running == {p \in Packages : fut[p].st = "running"}

\* The pool's work queue is FIFO: the next task to start is the first
\* submitted one that is still pending.
NextPending(p) ==
    \E i \in 1..Len(to_fetch) :
        /\ to_fetch[i] = p
        /\ fut[p].st = "pending"
        /\ \A j \in 1..(i - 1) : fut[to_fetch[j]].st # "pending"

-----------------------------------------------------------------------------
(* Initial state *)

LookupInit ==
    /\ disk \in DiskStates
    /\ phase = "idle"
    /\ requested = <<>>
    /\ limit = 0
    /\ pkgs = <<>>
    /\ to_fetch = <<>>
    /\ cache = EmptyMap
    /\ fut = [p \in Packages |-> NoFuture]
    /\ ret = EmptyMap
    /\ netcalls = [p \in Packages |-> 0]
    /\ sleeps = [p \in Packages |-> 0]
    /\ last = [p \in Packages |-> NoResponse]
    /\ loaded = EmptyMap
    /\ saves = 0
    /\ run = 0
    /\ rerun = FALSE

ScoreIdle ==
    /\ rows = <<>>
    /\ spc = "off"
    /\ weights = <<0, 0, 0>>
    /\ df = <<>>
    /\ agg = <<>>
    /\ scaled = <<>>

Init == LookupInit /\ ScoreIdle

-----------------------------------------------------------------------------
(* Actions of the lookup service *)

\* fetch_downloads_parallel, lines 162-171: load the cache, truncate, compute
\* the misses; return at once when there is none, else submit every miss.
Invoke(ps, lim) ==
    /\ phase \in {"idle", "returned"}
    /\ run < MaxRuns
    /\ LET c == LoadCache(disk)
           tr == Truncate(ps, lim)
           tf == ToFetch(tr, c)
       IN /\ cache' = c
          /\ loaded' = c
          /\ pkgs' = tr
          /\ to_fetch' = tf
          /\ IF tf = <<>>
             THEN /\ phase' = "returned"
                  /\ ret' = ResultMap(tr, c)
             ELSE /\ phase' = "pool"
                  /\ ret' = EmptyMap
          /\ fut' = [p \in Packages |-> IF p \in Range(tf) THEN NewFuture ELSE NoFuture]
    /\ requested' = ps
    /\ limit' = lim
    /\ rerun' = (phase = "returned" /\ ps = requested /\ lim = limit)
    /\ netcalls' = [p \in Packages |-> 0]
    /\ sleeps' = [p \in Packages |-> 0]
    /\ last' = [p \in Packages |-> NoResponse]
    /\ saves' = 0
    /\ run' = run + 1
    /\ UNCHANGED <<disk, scoreVars>>

\* A free worker thread of the pool takes the next queued task.
WorkerStart(p) ==
    /\ phase = "pool"
    /\ Cardinality(Running) < Threads
    /\ NextPending(p)
    /\ fut' = [fut EXCEPT ![p].st = "running"]
    /\ UNCHANGED <<disk, phase, requested, limit, pkgs, to_fetch, cache, ret,
                   netcalls, sleeps, last, loaded, saves, run, rerun, scoreVars>>

\* One attempt of fetch_download_count_once(p): the request, its response r
\* and what the loop does with it.
Attempt(p, r) ==
    /\ phase = "pool"
    /\ fut[p].st = "running"
    /\ LET it == FetchIteration(fut[p].attempt, r)
       IN /\ fut' = [fut EXCEPT ![p] =
                        [st |-> IF it.settled THEN "done" ELSE "running",
                         attempt |-> it.attempt, val |-> it.val, raised |-> FALSE]]
          /\ sleeps' = [sleeps EXCEPT ![p] = @ + (IF it.slept THEN 1 ELSE 0)]
    /\ netcalls' = [netcalls EXCEPT ![p] = @ + 1]
    /\ last' = [last EXCEPT ![p] = r]
    /\ UNCHANGED <<disk, phase, requested, limit, pkgs, to_fetch, cache, ret,
                   loaded, saves, run, rerun, scoreVars>>

\* Mutant: the value is recorded under the first submitted package instead
\* of the package of the completed future.
CollectUnderFirstKey(p) ==
    /\ phase = "pool"
    /\ fut[p].st = "done"
    /\ LET val == IF fut[p].raised THEN 0 ELSE fut[p].val
       IN cache' = (to_fetch[1] :> val) @@ cache
    /\ fut' = [fut EXCEPT ![p].st = "collected"]
    /\ UNCHANGED <<disk, phase, requested, limit, pkgs, to_fetch, ret,
                   netcalls, sleeps, last, loaded, saves, run, rerun, scoreVars>>

\* as_completed loop, lines 172-178: the main thread takes a completed
\* future and records its value (0 when the future raised).
Collect(p) ==
    /\ phase = "pool"
    /\ fut[p].st = "done"
    /\ LET val == IF fut[p].raised THEN 0 ELSE fut[p].val
       IN cache' = (p :> val) @@ cache
    /\ fut' = [fut EXCEPT ![p].st = "collected"]
    /\ UNCHANGED <<disk, phase, requested, limit, pkgs, to_fetch, ret,
                   netcalls, sleeps, last, loaded, saves, run, rerun, scoreVars>>

\* line 179, reached when the as_completed loop and the pool have finished.
Save ==
    /\ phase = "pool"
    /\ \A p \in Range(to_fetch) : fut[p].st = "collected"
    /\ disk' = SaveCache(cache)
    /\ saves' = saves + 1
    /\ phase' = "saved"
    /\ UNCHANGED <<requested, limit, pkgs, to_fetch, cache, fut, ret,
                   netcalls, sleeps, last, loaded, run, rerun, scoreVars>>

\* line 180.
Return ==
    /\ phase = "saved"
    /\ ret' = ResultMap(pkgs, cache)
    /\ phase' = "returned"
    /\ UNCHANGED <<disk, requested, limit, pkgs, to_fetch, cache, fut,
                   netcalls, sleeps, last, loaded, saves, run, rerun, scoreVars>>

Next ==
    \/ \E ps \in PkgLists, lim \in 1..MaxLimit : Invoke(ps, lim)
    \/ \E p \in Packages : WorkerStart(p)
    \/ \E p \in Packages, r \in Responses : Attempt(p, r)
    \/ \E p \in Packages : Collect(p)
    \/ Save
    \/ Return

Spec == Init /\ [][Next]_vars

-----------------------------------------------------------------------------
(* Claims about the lookup service *)

\* The packages of the caller's list that lie within the cap, and those of
\* them the loaded cache does not hold.
WithinCap == {requested[i] : i \in {j \in 1..Len(requested) : j <= limit}}
BeyondCap == {requested[i] : i \in {j \in 1..Len(requested) : j > limit}}
Misses == {p \in WithinCap : p \notin DOMAIN loaded}
Settled(p) == fut[p].st \in {"done", "collected"}
FailedAttempt(r) == r.status \in {0, 429} \/ (r.status = 200 /\ r.body = BadBody)
\* What the responses to p's own requests determine as p's value.
Outcome(p) ==
    IF last[p].status = 200 /\ last[p].body \in DownloadCounts THEN last[p].body ELSE 0

\* C1 as stated: the returned mapping has an entry for every requested
\* package, those beyond the cap included.
C1_EntryForEveryRequested ==
    phase = "returned" => \A p \in Range(requested) : p \in DOMAIN ret

\* C1 as amended: the returned mapping has an entry for exactly the requested
\* packages within the cap (0 for those whose lookup failed); packages beyond
\* the cap have no entry.
C1_EntryForEveryPackageWithinCap ==
    phase = "returned" =>
        /\ DOMAIN ret = WithinCap
        /\ \A p \in BeyondCap : p \notin DOMAIN ret
        /\ \A p \in Misses : FailedAttempt(last[p]) \/ last[p].status = 404 => ret[p] = 0

C1_Witness ==
    /\ phase = "returned"
    /\ BeyondCap # {}
    /\ \E p \in Misses : FailedAttempt(last[p]) /\ ret[p] = 0

\* C2: a network request is made for exactly the packages within the cap that
\* the loaded cache lacks; never for a cached package or one beyond the cap.
C2_RequestsExactlyForCappedMisses ==
    /\ \A p \in Packages : netcalls[p] > 0 => p \in WithinCap /\ p \notin DOMAIN loaded
    /\ phase \in {"saved", "returned"} =>
           {p \in Packages : netcalls[p] > 0} = Misses

C2_Witness ==
    /\ phase = "returned"
    /\ \E p \in WithinCap : p \in DOMAIN loaded /\ netcalls[p] = 0
    /\ \E p \in BeyondCap : p \notin DOMAIN loaded /\ netcalls[p] = 0
    /\ \E p \in Misses : netcalls[p] > 0

\* C3: a lookup issues at most MAX_RETRIES+1 requests and a running lookup
\* always has an attempt left to make; a 200 after failed attempts yields its
\* download count; a lookup settles on a failed attempt only when all
\* MAX_RETRIES+1 attempts failed, its value is then 0 and that 0 is what the
\* cache holds for the package, in memory and on disk.
C3_BoundedRetriesThenValue ==
    \A p \in Packages :
        /\ netcalls[p] <= MAX_RETRIES + 1
        /\ fut[p].st = "running" => netcalls[p] = fut[p].attempt /\ netcalls[p] <= MAX_RETRIES
        /\ Settled(p) /\ last[p].status = 200 /\ last[p].body \in DownloadCounts
               => fut[p].val = last[p].body
        /\ Settled(p) /\ FailedAttempt(last[p])
               => /\ netcalls[p] = MAX_RETRIES + 1
                  /\ fut[p].val = 0
                  /\ fut[p].st = "collected" => cache[p] = 0
                  /\ phase \in {"saved", "returned"} => disk.data[p] = 0

C3_Witness ==
    /\ phase = "returned"
    /\ \E p \in Packages :
          /\ netcalls[p] = MAX_RETRIES + 1 /\ sleeps[p] = MAX_RETRIES
          /\ last[p].status = 200 /\ ret[p] \in DownloadCounts
    /\ \E p \in Packages :
          /\ netcalls[p] = MAX_RETRIES + 1 /\ last[p].status = 0
          /\ disk.data[p] = 0

\* C4: an invocation with a miss writes the durable cache exactly once, after
\* every dispatched lookup was collected and before it returns; the file then
\* holds every dispatched miss with its value; an invocation that repeats the
\* arguments of the one before makes no request.
C4_SingleFlushAfterAllLookups ==
    /\ saves <= 1
    /\ phase = "pool" => saves = 0
    /\ phase = "returned" /\ Misses # {} => saves = 1
    /\ saves = 1 =>
          /\ Misses # {}
          /\ \A p \in Misses :
                /\ fut[p].st = "collected"
                /\ disk.readable /\ p \in DOMAIN disk.data
                /\ disk.data[p] = fut[p].val
    /\ rerun => phase = "returned" /\ \A p \in Packages : netcalls[p] = 0

C4_Witness ==
    /\ rerun
    /\ \E p \in Range(pkgs) : loaded[p] = 0
    /\ \E p \in Range(pkgs) : loaded[p] \in DownloadCounts

\* What C8 asks of one step, for every package.
C8_OtherStatusStep ==
    \A p \in Packages :
        /\ netcalls'[p] = netcalls[p] + 1 /\ last'[p].status \notin {0, 200, 429}
               => /\ fut'[p].st = "done"
                  /\ fut'[p].val = 0
                  /\ sleeps'[p] = sleeps[p]
        /\ Settled(p) /\ last[p].status \notin {0, 200, 429} /\ run' = run
               => /\ netcalls'[p] = netcalls[p]
                  /\ sleeps'[p] = sleeps[p]
                  /\ fut'[p].val = 0

\* C8: a response whose status is neither 200 nor 429 settles the lookup with
\* 0 at once, without a sleep; a settled lookup issues no further request and
\* sleeps no more during the invocation.
C8_OtherStatusShortCircuits == [][C8_OtherStatusStep]_vars

C8_Witness ==
    \E p \in Packages :
        /\ last[p].status = 404
        /\ netcalls[p] = MAX_RETRIES /\ sleeps[p] = MAX_RETRIES - 1
        /\ fut[p].st = "collected" /\ cache[p] = 0

\* C9: in every interleaving the cache holds the loaded entries unchanged
\* and, for each collected package, the value its own responses determine;
\* the returned mapping is that function of the responses.
C9_ValuesDependOnOwnResponsesOnly ==
    /\ DOMAIN cache = DOMAIN loaded \cup {p \in Packages : fut[p].st = "collected"}
    /\ \A p \in DOMAIN cache :
          cache[p] = IF p \in DOMAIN loaded THEN loaded[p] ELSE Outcome(p)
    /\ phase = "returned" =>
          \A p \in DOMAIN ret :
              ret[p] = IF p \in DOMAIN loaded THEN loaded[p] ELSE Outcome(p)

C9_Witness ==
    /\ phase = "returned"
    /\ \E p, q, r \in DOMAIN ret :
          /\ p \in DOMAIN loaded /\ ret[p] \in CachedCounts
          /\ FailedAttempt(last[q]) /\ ret[q] = 0
          /\ last[r].status = 200 /\ ret[r] \in DownloadCounts
          \* r was submitted after q and settled with fewer requests
          /\ \E i, j \in 1..Len(to_fetch) : i < j /\ to_fetch[i] = q /\ to_fetch[j] = r

-----------------------------------------------------------------------------
(* Scoring pipeline: strings are sequences of one-character strings.        *)
(* Fixed-point units: CVSS values in twentieths (2.5 is 50), weaponization  *)
(* weights in hundredths, log1p values in thousandths, configured weights   *)
(* in tenths. Normalized values and scores are exact fractions [num, den].  *)

MaxRows == 3

\* None in a string column / NaN in a float column of the data frame.
None == <<"None">>
NaN == -1

LowerCase == <<"a", "b", "c", "d", "e", "f", "g", "h", "i", "j", "k", "l", "m", "n", "o", "p", "q", "r", "s", "t", "u", "v", "w", "x", "y", "z">>
UpperCase == <<"A", "B", "C", "D", "E", "F", "G", "H", "I", "J", "K", "L", "M", "N", "O", "P", "Q", "R", "S", "T", "U", "V", "W", "X", "Y", "Z">>
Digits == <<"0", "1", "2", "3", "4", "5", "6", "7", "8", "9">>
Whitespace == {" "}

IndexIn(c, table) == CHOOSE i \in 1..Len(table) : table[i] = c
\* str.upper() / str.lower()
Upper(s) == Eval([i \in 1..Len(s) |->
                IF s[i] \in Range(LowerCase) THEN UpperCase[IndexIn(s[i], LowerCase)] ELSE s[i]])
Lower(s) == Eval([i \in 1..Len(s) |->
                IF s[i] \in Range(UpperCase) THEN LowerCase[IndexIn(s[i], UpperCase)] ELSE s[i]])

\* str.strip()
RECURSIVE LStrip(_)
LStrip(s) == IF s # <<>> /\ Head(s) \in Whitespace THEN LStrip(Tail(s)) ELSE s
RECURSIVE RStrip(_)
RStrip(s) ==
    IF s # <<>> /\ s[Len(s)] \in Whitespace THEN RStrip(SubSeq(s, 1, Len(s) - 1)) ELSE s
Strip(s) == RStrip(LStrip(s))

\* k in t (substring containment)
Contains(t, k) ==
    \E i \in 1..(Len(t) - Len(k) + 1) : SubSeq(t, i, i + Len(k) - 1) = k

\* The value of a run of decimal digits.
RECURSIVE DigitsValue(_)
DigitsValue(s) ==
    IF s = <<>> THEN 0
    ELSE 10 * DigitsValue(SubSeq(s, 1, Len(s) - 1)) + (IndexIn(s[Len(s)], Digits) - 1)

AllDigits(s) == s # <<>> /\ \A i \in 1..Len(s) : s[i] \in Range(Digits)

\* float(s) on the decimal literals the inputs hold: digits, optionally
\* followed by a point and one digit; the value in twentieths. NaN stands
\* for the ValueError float() raises on any other text of the inputs.
ParseFloat(s) ==
    IF AllDigits(s) THEN 20 * DigitsValue(s)
    ELSE IF /\ Len(s) >= 3
            /\ s[Len(s) - 1] = "."
            /\ AllDigits(SubSeq(s, 1, Len(s) - 2))
            /\ AllDigits(<<s[Len(s)]>>)
    THEN 20 * DigitsValue(SubSeq(s, 1, Len(s) - 2)) + 2 * DigitsValue(<<s[Len(s)]>>)
    ELSE NaN

\* SEV_TO_CVSS in its iteration order, values in twentieths.
SEV_TO_CVSS ==
    <<[k |-> <<"L", "O", "W">>, v |-> 50],
       [k |-> <<"M", "O", "D", "E", "R", "A", "T", "E">>, v |-> 110],
       [k |-> <<"M", "E", "D", "I", "U", "M">>, v |-> 110],
       [k |-> <<"H", "I", "G", "H">>, v |-> 160],
       [k |-> <<"C", "R", "I", "T", "I", "C", "A", "L">>, v |-> 190]>>

\* parse_severity_to_cvss: NaN stands for the returned None.
parse_severity_to_cvss(sev_field) ==
    IF sev_field = None \/ sev_field = <<>> THEN NaN
    ELSE LET s == Strip(sev_field)
             v == ParseFloat(s)
             s_up == Upper(s)
             hits == {i \in 1..Len(SEV_TO_CVSS) : Contains(s_up, SEV_TO_CVSS[i].k)}
         IN IF v # NaN /\ 0 <= v /\ v <= 200 THEN v
            ELSE IF hits # {}
            THEN SEV_TO_CVSS[CHOOSE i \in hits : \A j \in hits : i <= j].v
            ELSE NaN

\* WEAP_KEYWORDS, weights in hundredths.
WEAP_KEYWORDS ==
    <<[kw |-> <<"r", "c", "e">>, w |-> 100],
       [kw |-> <<"r", "e", "m", "o", "t", "e", " ", "c", "o", "d", "e", " ", "e", "x", "e", "c", "u", "t", "i", "o", "n">>, w |-> 100],
       [kw |-> <<"c", "o", "m", "m", "a", "n", "d", " ", "i", "n", "j", "e", "c", "t", "i", "o", "n">>, w |-> 98],
       [kw |-> <<"s", "q", "l", " ", "i", "n", "j", "e", "c", "t", "i", "o", "n">>, w |-> 95],
       [kw |-> <<"s", "q", "l", "i">>, w |-> 95],
       [kw |-> <<"c", "o", "d", "e", " ", "i", "n", "j", "e", "c", "t", "i", "o", "n">>, w |-> 95],
       [kw |-> <<"p", "r", "o", "t", "o", "t", "y", "p", "e", " ", "p", "o", "l", "l", "u", "t", "i", "o", "n">>, w |-> 90],
       [kw |-> <<"p", "r", "i", "v", "i", "l", "e", "g", "e", " ", "e", "s", "c", "a", "l", "a", "t", "i", "o", "n">>, w |-> 90],
       [kw |-> <<"s", "s", "r", "f">>, w |-> 85],
       [kw |-> <<"s", "e", "r", "v", "e", "r", " ", "s", "i", "d", "e", " ", "r", "e", "q", "u", "e", "s", "t", " ", "f", "o", "r", "g", "e", "r", "y">>, w |-> 85],
       [kw |-> <<"p", "a", "t", "h", " ", "t", "r", "a", "v", "e", "r", "s", "a", "l">>, w |-> 80],
       [kw |-> <<"l", "o", "c", "a", "l", " ", "f", "i", "l", "e", " ", "i", "n", "c", "l", "u", "s", "i", "o", "n">>, w |-> 80],
       [kw |-> <<"l", "f", "i">>, w |-> 80],
       [kw |-> <<"x", "s", "s">>, w |-> 60],
       [kw |-> <<"c", "r", "o", "s", "s", "-", "s", "i", "t", "e", " ", "s", "c", "r", "i", "p", "t", "i", "n", "g">>, w |-> 60],
       [kw |-> <<"d", "o", "m", "-", "b", "a", "s", "e", "d", " ", "x", "s", "s">>, w |-> 60],
       [kw |-> <<"a", "u", "t", "h", "e", "n", "t", "i", "c", "a", "t", "i", "o", "n", " ", "b", "y", "p", "a", "s", "s">>, w |-> 70],
       [kw |-> <<"d", "e", "n", "i", "a", "l", " ", "o", "f", " ", "s", "e", "r", "v", "i", "c", "e">>, w |-> 35],
       [kw |-> <<"d", "o", "s">>, w |-> 35],
       [kw |-> <<"i", "n", "f", "o", "r", "m", "a", "t", "i", "o", "n", " ", "d", "i", "s", "c", "l", "o", "s", "u", "r", "e">>, w |-> 30]>>

SetMax(S) == CHOOSE x \in S : \A y \in S : y <= x
SetMin(S) == CHOOSE x \in S : \A y \in S : x <= y

\* compute_weapon_score
compute_weapon_score(text) ==
    IF text = <<>> THEN 0
    ELSE LET t == Lower(text)
             matched == {WEAP_KEYWORDS[i].w : i \in
                            {j \in 1..Len(WEAP_KEYWORDS) : Contains(t, WEAP_KEYWORDS[j].kw)}}
         IN IF matched = {} THEN 0
            ELSE IF SetMax(matched) > 100 THEN 100 ELSE SetMax(matched)

-----------------------------------------------------------------------------
(* Inputs of the scoring pipeline *)

ScorePackages == {"a", "b"}
GHSA == <<"G", "H", "S", "A">>
MAL == <<"M", "A", "L">>

\* Severity fields of the CSV: missing (None, a short row), empty, a word in
\* mixed case inside other text, a number in range, a number out of range.
SevNone == None
SevEmpty == <<>>
SevWord == <<"s", "e", "v", ":", " ", "L", "o", "w">>
SevNumber == <<"7", ".", "5">>
SevTooBig == <<"1", "1">>

\* Summaries: empty, and one naming two techniques of WEAP_KEYWORDS.
SumEmpty == <<>>
SumRce == <<"R", "C", "E", " ", "v", "i", "a", " ", "X", "S", "S">>

\* The advisories a package can have: every severity field, with and without
\* a technique in the summary.
AdvisoryInputs ==
    {<<SevNone, SumRce>>, <<SevEmpty, SumEmpty>>, <<SevEmpty, SumRce>>,
     <<SevWord, SumEmpty>>, <<SevNumber, SumRce>>, <<SevTooBig, SumRce>>}

RowInputs ==
    {[package |-> p, type |-> GHSA, severity |-> a[1], summary |-> a[2]] :
        p \in ScorePackages, a \in AdvisoryInputs}
    \cup {[package |-> "a", type |-> MAL, severity |-> <<>>, summary |-> <<>>]}

\* (W_SEV, W_EXPLOIT, W_EXPOSURE) in tenths: the shipped configuration and
\* one that main has to rescale.
WeightInputs == {<<6, 3, 1>>, <<1, 0, 1>>}

DownloadValues == {0, 7}

\* math.log1p on the download counts of the model, in thousandths.
Log1p(x) == CASE x = 0 -> 0
              [] x = 3 -> 1386
              [] x = 7 -> 2079

-----------------------------------------------------------------------------
(* score_rows *)

\* main, lines 277-283: weights divided by their total unless it is 1.0;
\* each weight as a fraction [num, den].
NormalizeWeights(w) ==
    LET total == w[1] + w[2] + w[3]
    IN IF total # 10
       THEN [sev |-> [num |-> w[1], den |-> total],
             exploit |-> [num |-> w[2], den |-> total],
             exposure |-> [num |-> w[3], den |-> total]]
       ELSE [sev |-> [num |-> w[1], den |-> 10],
             exploit |-> [num |-> w[2], den |-> 10],
             exposure |-> [num |-> w[3], den |-> 10]]

\* line 184
GhsaRows(rs) == SelectSeq(rs, LAMBDA r : Upper(r.type) = GHSA)

\* Mutant: the lower middle value instead of the mean of the two middle ones.
NanMedianLower(col) ==
    LET vals == SortSeq(SelectSeq(col, LAMBDA v : v # NaN), <)
    IN vals[(Len(vals) + 1) \div 2]

\* np.nanmedian over the non-NaN values of a column (at least one).
NanMedian(col) ==
    LET vals == SortSeq(SelectSeq(col, LAMBDA v : v # NaN), <)
        n == Len(vals)
    IN IF n % 2 = 1 THEN vals[(n + 1) \div 2]
       ELSE (vals[n \div 2] + vals[n \div 2 + 1]) \div 2

\* line 192: the batch median, 5.5 when no severity resolved.
MedianCvss(col) ==
    IF \A i \in 1..Len(col) : col[i] = NaN THEN 110 ELSE NanMedian(col)

\* line 193: fillna
FillNa(v, fill) == IF v = NaN THEN fill ELSE v

\* line 204: df["package"].map(downloads_map).fillna(0)
MapDownloads(p, downloads_map) ==
    IF p \in DOMAIN downloads_map THEN downloads_map[p] ELSE 0

\* MinMaxScaler.fit_transform on one column: (x - min) / (max - min), a zero
\* range being replaced by 1.
MinMax(x, col) ==
    LET mn == SetMin(Range(col))
        mx == SetMax(Range(col))
    IN [num |-> x - mn, den |-> IF mx - mn = 0 THEN 1 ELSE mx - mn]

\* line 214 on fractions.
Combine(w, s, x, e) ==
    [num |-> w.sev.num * s.num * x.den * e.den
             + w.exploit.num * x.num * s.den * e.den
             + w.exposure.num * e.num * s.den * x.den,
     den |-> w.sev.den * s.den * x.den * e.den]

\* lines 184-196: the GHSA rows with their severity and weaponization columns.
FeatureFrame(rs) ==
    LET g == GhsaRows(rs)
        n == Len(g)
        cvss_raw == Eval([i \in 1..n |-> parse_severity_to_cvss(g[i].severity)])
        median_cvss == MedianCvss(cvss_raw)
    IN Eval([i \in 1..n |->
          [package |-> g[i].package, type |-> g[i].type,
           severity |-> g[i].severity, summary |-> g[i].summary,
           cvss_raw |-> cvss_raw[i], cvss |-> FillNa(cvss_raw[i], median_cvss),
           weap_score |-> compute_weapon_score(g[i].summary)]])

\* lines 204-214: the exposure columns, the normalized columns and the score
\* added to the frame.
ScoredFrame(feat, w, downloads_map) ==
    LET n == Len(feat)
        cvss == Eval([i \in 1..n |-> feat[i].cvss])
        weap_score == Eval([i \in 1..n |-> feat[i].weap_score])
        downloads == Eval([i \in 1..n |-> MapDownloads(feat[i].package, downloads_map)])
        downloads_log == Eval([i \in 1..n |-> Log1p(downloads[i])])
    IN Eval([i \in 1..n |->
          LET sev_norm == MinMax(cvss[i], cvss)
              weap_norm == MinMax(weap_score[i], weap_score)
              exp_norm == MinMax(downloads_log[i], downloads_log)
          IN [package |-> feat[i].package, type |-> feat[i].type,
              severity |-> feat[i].severity, summary |-> feat[i].summary,
              cvss_raw |-> feat[i].cvss_raw, cvss |-> cvss[i],
              weap_score |-> weap_score[i], downloads |-> downloads[i],
              downloads_log |-> downloads_log[i],
              sev_norm |-> sev_norm, weap_norm |-> weap_norm, exp_norm |-> exp_norm,
              score |-> Combine(w, sev_norm, weap_norm, exp_norm)]])

Columns == {"package", "type", "severity", "summary", "cvss_raw", "cvss", "weap_score",
            "downloads", "downloads_log", "sev_norm", "weap_norm", "exp_norm", "score"}

\* pandas isna on a cell: only these two columns can hold a missing value.
IsNull(col, v) ==
    CASE col = "severity" -> v = None
      [] col = "cvss_raw" -> v = NaN
      [] OTHER -> FALSE

\* Mutant: ascending order.
AscendingOrders(frame) ==
    {pi \in Permutations(1..Len(frame)) :
        \A i \in 1..(Len(frame) - 1) :
            frame[pi[i]].score.num <= frame[pi[i + 1]].score.num}

\* sort_values("score", ascending=False) with the default sort kind, which
\* is not stable: every arrangement in descending score order is possible.
DescendingOrders(frame) ==
    {pi \in Permutations(1..Len(frame)) :
        \A i \in 1..(Len(frame) - 1) :
            frame[pi[i]].score.num >= frame[pi[i + 1]].score.num}

\* GroupBy.first() on one group: per column, the first value that is not
\* missing (the missing value itself when the whole column is missing).
GroupFirst(grp) ==
    Eval([col \in Columns |->
        LET present == {i \in 1..Len(grp) : ~IsNull(col, grp[i][col])}
        IN IF present = {} THEN grp[1][col] ELSE grp[SetMin(present)][col]])

\* line 217: groupby("package").first() of the sorted frame, as a set of rows
\* (one per package).
Aggregate(sorted) ==
    {GroupFirst(SelectSeq(sorted, LAMBDA r : r.package = p)) :
        p \in {sorted[i].package : i \in 1..Len(sorted)}}

\* The rows of frame in the arrangement pi.
Reorder(frame, pi) ==
    Eval([i \in 1..Len(frame) |-> frame[pi[i]]])

\* line 217: the aggregated rows as a frame; its row order does not matter,
\* line 218 sorts it again.
GroupByFirst(sorted) ==
    LET groups == Aggregate(sorted)
    IN CHOOSE s \in [1..Cardinality(groups) -> groups] :
          \A i, j \in 1..Cardinality(groups) : i # j => s[i] # s[j]

\* lines 217-219: every table the two sorts can leave, rows of equal score
\* being in either order after each of them.
Rankings(frame) ==
    UNION {LET first == GroupByFirst(Reorder(frame, pi))
           IN {Reorder(first, rho) : rho \in DescendingOrders(first)} :
           pi \in DescendingOrders(frame)}

-----------------------------------------------------------------------------
(* MinMaxScaler in binary64, the arithmetic of numpy's float64 columns *)

\* A binary64 value that is not negative: Zero64, or the Precision bits of
\* its significand (first bit 1, most significant first) with the exponent e
\* of the first bit: the value is sig * 2^(e - Precision + 1).
Precision == 53
Zero64 == [sig |-> <<>>, e |-> 0]
One64 == [sig |-> <<1>> \o [i \in 1..(Precision - 1) |-> 0], e |-> 0]

\* The bit string b without its leading zeros.
StripLeadingZeros(b) ==
    LET ones == {i \in 1..Len(b) : b[i] = 1}
    IN IF ones = {} THEN <<>> ELSE SubSeq(b, SetMin(ones), Len(b))

\* The bit string b extended to n bits by leading zeros.
Widen(b, n) == [i \in 1..(n - Len(b)) |-> 0] \o b

\* The low n bits of the natural number k, most significant first.
ToBits(k, n) == Eval([i \in 1..n |-> (k \div 2^(n - i)) % 2])

\* The bits of b + 1.
Increment(b) ==
    LET n == Len(b)
    IN IF \A i \in 1..n : b[i] = 1
       THEN <<1>> \o [i \in 1..n |-> 0]
       ELSE Eval([i \in 1..n |->
                IF \A j \in (i + 1)..n : b[j] = 1 THEN 1 - b[i] ELSE b[i]])

\* The bits of a + b: the carry into position i comes from the nearest
\* position to its right where both bits are 1, through positions where
\* exactly one is.
Plus(a, b) ==
    LET n == (IF Len(a) > Len(b) THEN Len(a) ELSE Len(b)) + 1
        x == Widen(a, n)
        y == Widen(b, n)
        carry(i) == \E j \in (i + 1)..n :
                        /\ x[j] = 1 /\ y[j] = 1
                        /\ \A k \in (i + 1)..(j - 1) : x[k] + y[k] = 1
    IN Eval([i \in 1..n |-> (x[i] + y[i] + (IF carry(i) THEN 1 ELSE 0)) % 2])

\* The bits of a - b, for a >= b: the borrow from position i comes from the
\* nearest position to its right where the bits differ.
Minus(a, b) ==
    LET n == Len(a)
        y == Widen(b, n)
        borrow(i) == \E j \in (i + 1)..n :
                        /\ a[j] < y[j]
                        /\ \A k \in (i + 1)..(j - 1) : a[k] = y[k]
    IN Eval([i \in 1..n |-> (a[i] - y[i] - (IF borrow(i) THEN 1 ELSE 0)) % 2])

\* The bits of b * n, n a small natural number.
RECURSIVE Times(_, _)
Times(b, n) ==
    IF n = 0 THEN <<>>
    ELSE IF n % 2 = 0 THEN Times(b, n \div 2) \o <<0>>
    ELSE Plus(Times(b, n \div 2) \o <<0>>, b)

\* Rounding to nearest, ties to even: the binary64 value nearest to
\* bits * 2^q.
Round64(bits, q) ==
    LET b == StripLeadingZeros(bits)
        n == Len(b)
    IN IF n = 0 THEN Zero64
       ELSE IF n <= Precision
       THEN [sig |-> b \o [i \in 1..(Precision - n) |-> 0], e |-> q + n - 1]
       ELSE LET keep == SubSeq(b, 1, Precision)
                half == b[Precision + 1] = 1
                more == \E i \in (Precision + 2)..n : b[i] = 1
                r == IF half /\ (more \/ keep[Precision] = 1)
                     THEN Increment(keep) ELSE keep
            IN IF Len(r) > Precision
               THEN [sig |-> SubSeq(r, 1, Precision), e |-> q + n]
               ELSE [sig |-> r, e |-> q + n - 1]

\* Long division, Chunk bits at a time: n chunks of the binary expansion
\* of r / d (r < d), then one more bit telling whether a remainder is left.
Chunk == 11

RECURSIVE Quotient(_, _, _)
Quotient(r, d, n) ==
    IF n = 0 THEN <<IF r = 0 THEN 0 ELSE 1>>
    ELSE ToBits((r * 2^Chunk) \div d, Chunk) \o Quotient((r * 2^Chunk) % d, d, n - 1)

\* The exponent of the first bit of p / q (p, q > 0).
RECURSIVE Exponent(_, _)
Exponent(p, q) ==
    IF p >= 2 * q THEN Exponent(p, 2 * q) + 1
    ELSE IF p < q THEN Exponent(2 * p, q) - 1
    ELSE 0

\* The binary64 value nearest to p / q, p and q small natural numbers:
\* p / q = (r / d) * 2^(e + 1) with 1/2 <= r / d < 1.
RatioToFloat(p, q) ==
    IF p = 0 THEN Zero64
    ELSE LET e == Exponent(p, q)
             r == IF e < 0 THEN p * 2^(0 - e) ELSE p
             d == 2 * (IF e > 0 THEN q * 2^e ELSE q)
             n == (Precision + 1) \div Chunk + 1
         IN Round64(Quotient(r, d, n), e - n * Chunk)

\* A severity score of the model (twentieths) as the float64 of the column.
\* The scores of SEV_TO_CVSS, the numbers of ScalerInputs and the medians of
\* two of them are multiples of 0.25: they, their differences and their
\* halved sums are binary64 values, so the arithmetic up to line 207 is exact.
Quarters(v) == v \div 5

\* x * f rounded, x a number of quarters.
Product(x, f) ==
    IF x = 0 \/ f = Zero64 THEN Zero64
    ELSE Round64(Times(f.sig, x), f.e - Precision + 1 - 2)

\* a - b rounded, for a >= b.
Difference(a, b) ==
    IF b = Zero64 THEN a
    ELSE Round64(Minus(a.sig \o [i \in 1..(a.e - b.e) |-> 0], b.sig),
                 b.e - Precision + 1)

\* lines 208-210 on one column: fit computes data_range, scale_ = 1 / data_range
\* (a zero range replaced by 1) and min_ = 0 - data_min * scale_; transform
\* computes x * scale_ + min_. Each operation rounds.
MinMax64(x, col) ==
    LET data_min == SetMin(Range(col))
        data_max == SetMax(Range(col))
        data_range == Quarters(data_max - data_min)
        scale_ == IF data_range = 0 THEN One64 ELSE RatioToFloat(4, data_range)
        min_ == Product(Quarters(data_min), scale_)
    IN Difference(Product(Quarters(x), scale_), min_)

\* f > 1.
AboveOne(f) ==
    /\ f # Zero64
    /\ \/ f.e > 0
       \/ f.e = 0 /\ \E i \in 2..Precision : f.sig[i] = 1

-----------------------------------------------------------------------------
(* Actions of the scoring pipeline *)

LookupIdle ==
    /\ disk = [readable |-> FALSE, data |-> EmptyMap]
    /\ phase = "idle"
    /\ requested = <<>>
    /\ limit = 0
    /\ pkgs = <<>>
    /\ to_fetch = <<>>
    /\ cache = EmptyMap
    /\ fut = [p \in Packages |-> NoFuture]
    /\ ret = EmptyMap
    /\ netcalls = [p \in Packages |-> 0]
    /\ sleeps = [p \in Packages |-> 0]
    /\ last = [p \in Packages |-> NoResponse]
    /\ loaded = EmptyMap
    /\ saves = 0
    /\ run = 0
    /\ rerun = FALSE

ScoreInit ==
    /\ LookupIdle
    /\ rows = <<>>
    /\ spc = "reading"
    /\ weights = <<0, 0, 0>>
    /\ df = <<>>
    /\ agg = <<>>
    /\ scaled = <<>>

\* read_csv_rows, lines 95-96: one more row of the CSV.
ReadRow(r) ==
    /\ spc = "reading"
    /\ Len(rows) < MaxRows
    /\ rows' = Append(rows, r)
    /\ UNCHANGED <<spc, weights, df, agg, scaled, lookupVars>>

\* main -> generate_outputs -> score_rows with the configured weights w; the
\* exposure lookup of lines 199-202 returns downloads_map for the packages of
\* the frame (all 0 when FETCH_DOWNLOADS is off).
ScoreRows(w, fetch_downloads) ==
    /\ spc = "reading"
    /\ \E feat \in {FeatureFrame(rows)} :
          \E downloads_map \in [{feat[i].package : i \in 1..Len(feat)} -> DownloadValues] :
            /\ ~fetch_downloads => \A p \in DOMAIN downloads_map : downloads_map[p] = 0
            /\ \E frame \in {ScoredFrame(feat, NormalizeWeights(w), downloads_map)} :
                  /\ df' = frame
                  /\ agg' \in Rankings(frame)
    /\ weights' = w
    /\ spc' = "scored"
    /\ UNCHANGED <<rows, scaled, lookupVars>>

ScoreNext ==
    \/ \E r \in RowInputs : ReadRow(r)
    \/ \E w \in WeightInputs, fetch_downloads \in BOOLEAN : ScoreRows(w, fetch_downloads)

ScoreSpec == ScoreInit /\ [][ScoreNext]_vars

-----------------------------------------------------------------------------
(* The severity column through the scaler, in binary64 *)

SevModerate == <<"M", "O", "D", "E", "R", "A", "T", "E">>
SevTen == <<"1", "0">>

\* Rows whose severity scores, and the medians of them, are multiples of 0.25.
ScalerInputs ==
    {[package |-> "a", type |-> GHSA, severity |-> s, summary |-> SumEmpty] :
        s \in {SevEmpty, SevWord, SevNumber, SevModerate, SevTen}}

\* score_rows up to line 210, for the cvss column: the column of line 196
\* and its values after scaler.fit_transform.
FitTransform ==
    /\ spc = "reading"
    /\ \E feat \in {FeatureFrame(rows)} :
          LET cvss == Eval([i \in 1..Len(feat) |-> feat[i].cvss])
          IN scaled' = Eval([i \in 1..Len(feat) |->
                              [cvss |-> cvss[i], sev_norm |-> MinMax64(cvss[i], cvss)]])
    /\ spc' = "scaled"
    /\ UNCHANGED <<rows, weights, df, agg, lookupVars>>

ScalerNext ==
    \/ \E r \in ScalerInputs : ReadRow(r)
    \/ FitTransform

ScalerSpec == ScoreInit /\ [][ScalerNext]_vars

-----------------------------------------------------------------------------
(* Claims about the scoring pipeline *)

Scored == spc = "scored"
SamePackage(p) == {i \in 1..Len(df) : df[i].package = p}
FirstSeen(p) == SetMin(SamePackage(p))
InUnit(q) == q.den > 0 /\ 0 <= q.num /\ q.num <= q.den

\* The severity fields of the inputs that neither parse as a number in
\* [0,10] nor contain a severity word.
UnresolvedInputs == {SevNone, SevEmpty, SevTooBig}
ResolvedRows == {i \in 1..Len(df) : df[i].severity \notin UnresolvedInputs}
UnresolvedRows == {i \in 1..Len(df) : df[i].severity \in UnresolvedInputs}
\* The k-th smallest severity score among the resolved rows.
ResolvedAtRank(k) ==
    CHOOSE v \in {df[j].cvss : j \in ResolvedRows} :
        /\ Cardinality({j \in ResolvedRows : df[j].cvss < v}) < k
        /\ k <= Cardinality({j \in ResolvedRows : df[j].cvss <= v})
\* m is the median of the resolved severity scores.
IsResolvedMedian(m) ==
    LET n == Cardinality(ResolvedRows)
    IN 2 * m = ResolvedAtRank((n + 1) \div 2) + ResolvedAtRank(n \div 2 + 1)

\* C5: the output has exactly one row per distinct package, and for a
\* package one of whose advisories scores strictly higher than its others
\* that row equals this advisory in every field.
C5_OneRowEqualToBestAdvisory ==
    Scored =>
        /\ \A p \in {df[i].package : i \in 1..Len(df)} :
              Cardinality({i \in 1..Len(agg) : agg[i].package = p}) = 1
        /\ \A i \in 1..Len(agg) :
              \A j \in SamePackage(agg[i].package) :
                  (\A k \in SamePackage(agg[i].package) \ {j} :
                        df[k].score.num < df[j].score.num)
                      => agg[i] = df[j]

\* C6 as stated: descending by score, equal scores in the order in which
\* their packages were first seen in the input.
C6_DescendingWithFirstSeenTies ==
    Scored =>
        \A i, j \in 1..Len(agg) :
            i < j => \/ agg[i].score.num > agg[j].score.num
                     \/ /\ agg[i].score.num = agg[j].score.num
                        /\ FirstSeen(agg[i].package) < FirstSeen(agg[j].package)

\* C6 as amended: the ranked sequence is in descending order of score; the
\* order of rows with equal scores is not determined by first appearance.
C6_DescendingByScore ==
    Scored =>
        \A i, j \in 1..Len(agg) : i < j => agg[i].score.num >= agg[j].score.num

C6_Witness ==
    /\ Scored
    /\ \E i, j \in 1..Len(agg) :
          /\ i < j
          /\ agg[i].score.num > agg[j].score.num
          /\ FirstSeen(agg[i].package) > FirstSeen(agg[j].package)

\* With non-negative weights summing to 1, every normalized value and every
\* score lies in [0,1] in exact arithmetic, and an axis whose values are all
\* equal in the batch is normalized to 0 throughout.
ExactValuesInUnitInterval ==
    Scored =>
        /\ \A i \in 1..Len(df) :
              /\ InUnit(df[i].sev_norm)
              /\ InUnit(df[i].weap_norm)
              /\ InUnit(df[i].exp_norm)
              /\ InUnit(df[i].score)
        /\ (\A i, j \in 1..Len(df) : df[i].cvss = df[j].cvss)
              => \A i \in 1..Len(df) : df[i].sev_norm.num = 0
        /\ (\A i, j \in 1..Len(df) : df[i].weap_score = df[j].weap_score)
              => \A i \in 1..Len(df) : df[i].weap_norm.num = 0
        /\ (\A i, j \in 1..Len(df) : df[i].downloads = df[j].downloads)
              => \A i \in 1..Len(df) : df[i].exp_norm.num = 0

Scaled == spc = "scaled"

\* A severity column whose values are all equal is normalized to 0.0
\* throughout, in binary64 as well.
ConstantColumnIsZero64 ==
    Scaled =>
        ((\A i, j \in 1..Len(scaled) : scaled[i].cvss = scaled[j].cvss)
            => \A i \in 1..Len(scaled) : scaled[i].sev_norm = Zero64)

\* C7: every sev_norm that score_rows computes lies in [0,1], and a severity
\* column whose values are all equal in the batch is normalized to exactly
\* 0.0 throughout. (The values of the model are never negative.)
C7_NormalizedValuesInUnitInterval ==
    Scaled =>
        /\ \A i \in 1..Len(scaled) : ~AboveOne(scaled[i].sev_norm)
        /\ (\A i, j \in 1..Len(scaled) : scaled[i].cvss = scaled[j].cvss)
              => \A i \in 1..Len(scaled) : scaled[i].sev_norm = Zero64

\* C10 as stated: every record with an unresolved severity receives the
\* median of the severity scores of the records whose severity resolved.
C10_UnresolvedGetMedianOfResolved ==
    Scored =>
        \A i \in UnresolvedRows :
            ResolvedRows # {} /\ IsResolvedMedian(df[i].cvss)

\* C10 as amended: every record with an unresolved severity receives the
\* median of the severity scores of the records whose severity resolved, and
\* 5.5 when no severity of the batch resolved.
C10_UnresolvedGetMedianOrDefault ==
    Scored =>
        \A i \in UnresolvedRows :
            IF ResolvedRows # {} THEN IsResolvedMedian(df[i].cvss) ELSE df[i].cvss = 110

C10_Witness ==
    /\ Scored
    /\ \E i, j, k \in 1..Len(df) :
          /\ df[i].severity = SevTooBig /\ df[i].cvss = 100
          /\ df[j].cvss = 50 /\ df[k].cvss = 150

=============================================================================
